---- MODULE Spec2Model ----
(***************************************************************************)
(* The libiconv recipe (recipes/libiconv/all/conanfile.py) as a state      *)
(* machine.  The recipe object is the state; each recipe method is one     *)
(* action.  Calls into the package manager's tool library and into the     *)
(* external build system are modelled by their documented effect, with     *)
(* their success or failure a nondeterministic input of the action.        *)
(***************************************************************************)
EXTENDS Naturals, Sequences, FiniteSets, TLC

VARIABLES
    pc,              \* the last recipe method that ran ("new" before any)
    status,          \* "ok", or "failed" once a method raised
    failed_at,       \* the call that raised, "none" while status = "ok"
    settings,        \* self.settings: setting name -> value
    settings_build,  \* self.settings_build: os and arch of the build machine
    options,         \* self.options: option name -> value
    conf_bash,       \* self.conf "tools.microsoft.bash:path"
    win_bash,        \* self.win_bash
    tool_requires,   \* the tool requirements declared so far
    configure_args,  \* tc.configure_args as handed to tc.generate
    env,             \* the environment handed to tc.generate: name -> value
    archive_windres, \* windows/windres-options as shipped in the source archive
    windres,         \* windows/windres-options in the source folder
    build_folder,    \* what the make step left for the install step to install
    package_folder,  \* the files of the package folder
    log              \* the calls each method made, in order

vars == <<pc, status, failed_at, settings, settings_build, options, conf_bash,
          win_bash, tool_requires, configure_args, env, archive_windres,
          windres, build_folder, package_folder, log>>

\* Python's None.
None == "<None>"

\* A mapping without the key k.
Without(f, k) == [x \in DOMAIN f \ {k} |-> f[x]]

\* The recipe object as one record, and the step that installs a new one.
Self ==
    [pc |-> pc, status |-> status, failed_at |-> failed_at, settings |-> settings,
     settings_build |-> settings_build, options |-> options, conf_bash |-> conf_bash,
     win_bash |-> win_bash, tool_requires |-> tool_requires,
     configure_args |-> configure_args, env |-> env,
     archive_windres |-> archive_windres, windres |-> windres,
     build_folder |-> build_folder, package_folder |-> package_folder, log |-> log]

IsState(r) ==
    /\ pc = r.pc
    /\ status = r.status
    /\ failed_at = r.failed_at
    /\ settings = r.settings
    /\ settings_build = r.settings_build
    /\ options = r.options
    /\ conf_bash = r.conf_bash
    /\ win_bash = r.win_bash
    /\ tool_requires = r.tool_requires
    /\ configure_args = r.configure_args
    /\ env = r.env
    /\ archive_windres = r.archive_windres
    /\ windres = r.windres
    /\ build_folder = r.build_folder
    /\ package_folder = r.package_folder
    /\ log = r.log

Becomes(r) ==
    /\ pc' = r.pc
    /\ status' = r.status
    /\ failed_at' = r.failed_at
    /\ settings' = r.settings
    /\ settings_build' = r.settings_build
    /\ options' = r.options
    /\ conf_bash' = r.conf_bash
    /\ win_bash' = r.win_bash
    /\ tool_requires' = r.tool_requires
    /\ configure_args' = r.configure_args
    /\ env' = r.env
    /\ archive_windres' = r.archive_windres
    /\ windres' = r.windres
    /\ build_folder' = r.build_folder
    /\ package_folder' = r.package_folder
    /\ log' = r.log

\* A method that returned, and a method that raised in the call `step`.
Returned(r, method) == [r EXCEPT !.pc = method]
Raised(r, method, step) ==
    [r EXCEPT !.pc = method, !.status = "failed", !.failed_at = step]

\* The record with the call `step` of `method` added to its log.
Called(r, method, step) == [r EXCEPT !.log = Append(@, <<method, step>>)]

(***************************************************************************)
(* Settings and options.                                                   *)
(***************************************************************************)

OperatingSystems == {"Windows", "Linux", "Macos"}
Architectures == {"x86_64", "x86", "armv8", "armv7"}
BuildTypes == {"Debug", "Release"}

\* The compiler with its sub-settings: msvc always has a runtime and no
\* libcxx, gcc has a libcxx and no runtime, clang has a libcxx and may have
\* a runtime; cppstd is optional everywhere.
CompilerSettings ==
    { [x \in {"compiler", "compiler.runtime"} |->
          IF x = "compiler" THEN "msvc" ELSE "dynamic"],
      [x \in {"compiler", "compiler.runtime", "compiler.cppstd"} |->
          IF x = "compiler" THEN "msvc"
          ELSE IF x = "compiler.runtime" THEN "static" ELSE "17"],
      [x \in {"compiler", "compiler.libcxx"} |->
          IF x = "compiler" THEN "gcc" ELSE "libstdc++11"],
      [x \in {"compiler", "compiler.libcxx", "compiler.cppstd"} |->
          IF x = "compiler" THEN "gcc"
          ELSE IF x = "compiler.libcxx" THEN "libstdc++11" ELSE "gnu17"],
      [x \in {"compiler", "compiler.libcxx"} |->
          IF x = "compiler" THEN "clang" ELSE "libc++"],
      [x \in {"compiler", "compiler.libcxx", "compiler.runtime"} |->
          IF x = "compiler" THEN "clang"
          ELSE IF x = "compiler.libcxx" THEN "libc++" ELSE "dynamic"],
      [x \in {"compiler", "compiler.libcxx", "compiler.runtime", "compiler.cppstd"} |->
          IF x = "compiler" THEN "clang"
          ELSE IF x = "compiler.libcxx" THEN "libc++"
          ELSE IF x = "compiler.runtime" THEN "static" ELSE "17"] }

\* settings = "os", "arch", "compiler", "build_type"
SettingsOf(os, arch, build_type, comp) ==
    [x \in {"os", "arch", "build_type"} \cup DOMAIN comp |->
        IF x = "os" THEN os
        ELSE IF x = "arch" THEN arch
        ELSE IF x = "build_type" THEN build_type
        ELSE comp[x]]

\* options = {shared, fPIC}: both boolean, both present on a new recipe.
OptionsOf(shared, fPIC) ==
    [x \in {"shared", "fPIC"} |-> IF x = "shared" THEN shared ELSE fPIC]

\* default_options
default_options == OptionsOf(FALSE, TRUE)

\* settings.get_safe / options.get_safe: the value, or None when absent.
get_safe(s, name) == IF name \in DOMAIN s THEN s[name] ELSE None

\* `del options.X`: raises when the option does not exist.
DelAttr(o, name) ==
    IF name \in DOMAIN o
    THEN [ok |-> TRUE, val |-> Without(o, name)]
    ELSE [ok |-> FALSE, val |-> o]

\* rm_safe, as written with `del`: a deletion that raises on a missing name.
rm_safe_strict(o, name) == DelAttr(o, name)

\* rm_safe: removes the name when it is there, never raises.
rm_safe(o, name) == [ok |-> TRUE, val |-> Without(o, name)]

\* is_msvc(self)
is_msvc(r) == get_safe(r.settings, "compiler") = "msvc"

\* _is_clang_cl: clang on Windows with a runtime setting.
_is_clang_cl(r) ==
    /\ r.settings["compiler"] = "clang"
    /\ r.settings["os"] = "Windows"
    /\ get_safe(r.settings, "compiler.runtime") # None

\* _msvc_tools: (compiler, librarian, linker)
_msvc_tools(r) ==
    IF _is_clang_cl(r) THEN <<"clang-cl", "llvm-lib", "lld-link">>
    ELSE <<"cl", "lib", "link">>

(***************************************************************************)
(* config_options and configure.                                           *)
(***************************************************************************)

\* config_options that keeps fPIC on every os.
config_options_keep(r) == Returned(r, "config_options")

\* config_options: fPIC does not exist on Windows.
config_options(r) ==
    IF r.settings["os"] = "Windows"
    THEN LET d == DelAttr(r.options, "fPIC")
         IN  IF d.ok THEN Returned([r EXCEPT !.options = d.val], "config_options")
             ELSE Raised(r, "config_options", "del fPIC")
    ELSE Returned(r, "config_options")

\* configure: no fPIC on a shared build; a C library has no libcxx or cppstd.
configure(r) ==
    LET o  == IF r.options["shared"] THEN rm_safe(r.options, "fPIC")
              ELSE [ok |-> TRUE, val |-> r.options]
        s1 == rm_safe(r.settings, "compiler.libcxx")
        s2 == rm_safe(s1.val, "compiler.cppstd")
    IN  IF ~o.ok THEN Raised(r, "configure", "rm_safe fPIC")
        ELSE IF ~s1.ok THEN
            Raised([r EXCEPT !.options = o.val], "configure", "rm_safe compiler.libcxx")
        ELSE IF ~s2.ok THEN
            Raised([r EXCEPT !.options = o.val, !.settings = s1.val],
                   "configure", "rm_safe compiler.cppstd")
        ELSE Returned([r EXCEPT !.options = o.val, !.settings = s2.val], "configure")

(***************************************************************************)
(* build_requirements.                                                     *)
(***************************************************************************)

\* The values tools.microsoft.bash:path can have: unset, empty, a path.
BashPaths == {None, "", "C:\\msys64\\usr\\bin\\bash.exe"}

\* Python's truth of conf.get(..., check_type=str).
Truthy(v) == v # None /\ v # ""

\* build_requirements keyed on the target os instead of the build machine's.
build_requirements_host_os(r) ==
    IF r.settings["os"] = "Windows"
    THEN Returned([r EXCEPT
             !.tool_requires = IF ~Truthy(r.conf_bash) THEN @ \cup {"msys2/cci.latest"} ELSE @,
             !.win_bash = TRUE], "build_requirements")
    ELSE Returned(r, "build_requirements")

\* build_requirements: on a Windows build machine run in bash, and bring msys2
\* unless a bash is configured.
build_requirements(r) ==
    IF r.settings_build.os = "Windows"
    THEN Returned([r EXCEPT
             !.tool_requires = IF ~Truthy(r.conf_bash) THEN @ \cup {"msys2/cci.latest"} ELSE @,
             !.win_bash = TRUE], "build_requirements")
    ELSE Returned(r, "build_requirements")

(***************************************************************************)
(* source and the folders of the layout.                                   *)
(***************************************************************************)

\* The text of windows/windres-options, as tokens: the anchor text, a line
\* break, the injected text, and any other text (text that neither holds nor
\* completes an occurrence of the anchor text).
Anchor == "#   PACKAGE_VERSION_SUBMINOR"
Inject == "echo \"--target=pe-i386\""
NL == "\n"
Other == "..."
Tokens == {Anchor, NL, Inject, Other}

\* The file as the upstream archive ships it: the anchor is one comment line.
UpstreamWindres == <<Other, NL, Anchor, NL, Other>>

\* source: get(...) downloads and unpacks the archive; it raises when the
\* download or the checksum fails.
source(r, get_ok) ==
    LET q == Called(r, "source", "get")
    IN  IF get_ok THEN Returned([q EXCEPT !.windres = r.archive_windres], "source")
        ELSE Raised(q, "source", "get")

\* A path: the root, the components below it and the separator of its flavour.
\* The recipe folder on the build machine.
BaseFolder(r) ==
    IF r.settings_build.os = "Windows"
    THEN [root |-> "C:\\ws", sep |-> "\\", parts |-> <<>>]
    ELSE [root |-> "/ws", sep |-> "/", parts |-> <<>>]

\* os.path.join
path_join(p, names) == [p EXCEPT !.parts = @ \o names]

\* layout: basic_layout(self, src_folder="src")
source_folder(r) == path_join(BaseFolder(r), <<"src">>)

RECURSIVE Joined(_, _)
Joined(sep, names) ==
    IF names = <<>> THEN "" ELSE sep \o Head(names) \o Joined(sep, Tail(names))

\* The path as the string the recipe formats into the environment.
PathStr(p) == p.root \o Joined(p.sep, p.parts)

\* unix_path: inside the bash subsystem of a Windows build machine the drive
\* becomes a directory and the separators become slashes; elsewhere the path
\* is returned as it is.
unix_path(r, p) ==
    IF r.settings_build.os = "Windows" /\ r.win_bash
    THEN [root |-> "/c/ws", sep |-> "/", parts |-> p.parts]
    ELSE p

(***************************************************************************)
(* generate.                                                               *)
(***************************************************************************)

\* cross_building(self): the build machine differs from the target in os or arch.
cross_building(r) ==
    \/ r.settings_build.os # r.settings["os"]
    \/ r.settings_build.arch # r.settings["arch"]

\* AutotoolsToolchain(self).configure_args before the recipe touches them.
AutotoolsToolchainArgs(r) ==
    IF r.options["shared"] THEN <<"--enable-shared", "--disable-static">>
    ELSE <<"--disable-shared", "--enable-static">>

\* tc.environment() before the recipe touches it.
AutotoolsToolchainEnv(r) ==
    [x \in {"CPPFLAGS", "CFLAGS", "LDFLAGS"} |->
        IF x = "CPPFLAGS" /\ r.settings["build_type"] = "Release" THEN "-DNDEBUG" ELSE ""]

\* The triplet table with x86 left as it is.
triplet_arch_windows_plain(arch) ==
    CASE arch = "x86_64" -> "x86_64"
      [] arch = "x86" -> "x86"
      [] arch = "armv8" -> "aarch64"
      [] OTHER -> None

\* triplet_arch_windows.get(arch)
triplet_arch_windows(arch) ==
    CASE arch = "x86_64" -> "x86_64"
      [] arch = "x86" -> "i686"
      [] arch = "armv8" -> "aarch64"
      [] OTHER -> None

\* env.define(name, value)
define(e, name, value) ==
    [x \in DOMAIN e \cup {name} |-> IF x = name THEN value ELSE e[x]]

\* The eight definitions of the MSVC branch, with the tools not wrapped.
msvc_env_unwrapped(r, e) ==
    LET cc == _msvc_tools(r)[1]
        lib == _msvc_tools(r)[2]
        link == _msvc_tools(r)[3]
        e1 == define(e, "CC", cc \o " -nologo")
        e2 == define(e1, "CXX", cc \o " -nologo")
        e3 == define(e2, "LD", link)
        e4 == define(e3, "STRIP", ":")
        e5 == define(e4, "AR", lib)
        e6 == define(e5, "RANLIB", ":")
        e7 == define(e6, "NM", "dumpbin -symbols")
    IN  define(e7, "win32_target", "_WIN32_WINNT_VISTA")

\* The eight definitions of the MSVC branch of generate.
msvc_env(r, e) ==
    LET cc == _msvc_tools(r)[1]
        lib == _msvc_tools(r)[2]
        link == _msvc_tools(r)[3]
        build_aux_path == path_join(source_folder(r), <<"build-aux">>)
        lt_compile == PathStr(unix_path(r, path_join(build_aux_path, <<"compile">>)))
        lt_ar == PathStr(unix_path(r, path_join(build_aux_path, <<"ar-lib">>)))
        e1 == define(e, "CC", lt_compile \o " " \o cc \o " -nologo")
        e2 == define(e1, "CXX", lt_compile \o " " \o cc \o " -nologo")
        e3 == define(e2, "LD", link)
        e4 == define(e3, "STRIP", ":")
        e5 == define(e4, "AR", lt_ar \o " " \o lib)
        e6 == define(e5, "RANLIB", ":")
        e7 == define(e6, "NM", "dumpbin -symbols")
    IN  define(e7, "win32_target", "_WIN32_WINNT_VISTA")

\* generate: the --host/--build triplets of an MSVC cross build, and the tool
\* variables of an MSVC-family compiler.
generate(r) ==
    LET host_arch == triplet_arch_windows(r.settings["arch"])
        build_arch == triplet_arch_windows(r.settings_build.arch)
        args == IF cross_building(r) /\ is_msvc(r) /\ host_arch # None /\ build_arch # None
                THEN AutotoolsToolchainArgs(r)
                     \o << "--host=" \o host_arch \o "-w64-mingw32",
                           "--build=" \o build_arch \o "-w64-mingw32" >>
                ELSE AutotoolsToolchainArgs(r)
        e == IF is_msvc(r) \/ _is_clang_cl(r)
             THEN msvc_env(r, AutotoolsToolchainEnv(r))
             ELSE AutotoolsToolchainEnv(r)
    IN  Returned([r EXCEPT !.configure_args = args, !.env = e], "generate")

(***************************************************************************)
(* build.                                                                  *)
(***************************************************************************)

\* The longest windres-options text the model draws.
MaxLen == 4

RECURSIVE Count(_, _)
Count(text, tok) ==
    IF text = <<>> THEN 0
    ELSE (IF Head(text) = tok THEN 1 ELSE 0) + Count(Tail(text), tok)

\* str.replace: every occurrence of the token `search` becomes `replace`.
RECURSIVE str_replace(_, _, _)
str_replace(text, search, replace) ==
    IF text = <<>> THEN <<>>
    ELSE (IF Head(text) = search THEN replace ELSE <<Head(text)>>)
         \o str_replace(Tail(text), search, replace)

\* replace_in_file with strict=False: a missing search text is not an error.
replace_in_file_lenient(text, search, replace) ==
    [ok |-> TRUE, val |-> str_replace(text, search, replace)]

\* replace_in_file(..., strict=True): raises when the search text is absent,
\* else replaces every occurrence.
replace_in_file(text, search, replace) ==
    IF Count(text, search) = 0 THEN [ok |-> FALSE, val |-> text]
    ELSE [ok |-> TRUE, val |-> str_replace(text, search, replace)]

\* The replacement text with the directive put before the anchor.
ReplacementBefore == <<Inject, NL, Anchor>>

\* '#   PACKAGE_VERSION_SUBMINOR\necho "--target=pe-i386"'
Replacement == <<Anchor, NL, Inject>>

\* _apply_resource_patch: only a 32-bit x86 target patches windres-options.
_apply_resource_patch(r) ==
    IF r.settings["arch"] = "x86"
    THEN LET d == replace_in_file(r.windres, Anchor, Replacement)
         IN  IF d.ok THEN [r EXCEPT !.windres = d.val]
             ELSE Raised(r, "build", "_apply_resource_patch")
    ELSE r

\* A file: the directories from the package folder down to it, and its name
\* split at the dots.
File(dir, name) == [dir |-> dir, name |-> name]

\* What the external steps do, which the recipe does not decide: whether each
\* succeeds, and what the build leaves to be installed.
BuildExternals(outputs) ==
    [patches_ok : BOOLEAN, configure_ok : BOOLEAN, make_ok : BOOLEAN, output : outputs]
PackageExternals == [install_ok : BOOLEAN]

\* One call of build, made on a recipe that has not failed.
BuildStep(r, step, ext) ==
    LET q == Called(r, "build", step)
    IN  CASE step = "apply_conandata_patches" ->
               IF ext.patches_ok THEN q ELSE Raised(q, "build", step)
          [] step = "_apply_resource_patch" -> _apply_resource_patch(q)
          [] step = "autotools.configure" ->
               IF ext.configure_ok THEN q ELSE Raised(q, "build", step)
          [] step = "autotools.make" ->
               IF ext.make_ok THEN [q EXCEPT !.build_folder = ext.output]
               ELSE Raised(q, "build", step)

\* The calls of build with configure ahead of the resource patch.
BuildStepsConfigureFirst ==
    <<"apply_conandata_patches", "autotools.configure", "_apply_resource_patch",
      "autotools.make">>

\* The calls of build, in the order of its body.
BuildSteps ==
    <<"apply_conandata_patches", "_apply_resource_patch", "autotools.configure",
      "autotools.make">>

\* The calls one after the other; an exception ends the method.
RECURSIVE BuildFrom(_, _, _)
BuildFrom(r, steps, ext) ==
    IF steps = <<>> \/ r.status = "failed" THEN r
    ELSE BuildFrom(BuildStep(r, Head(steps), ext), Tail(steps), ext)

build(r, ext) == Returned(BuildFrom(r, BuildSteps, ext), "build")

(***************************************************************************)
(* package.                                                                *)
(***************************************************************************)

\* fnmatch(filename, "*." + ext)
fnmatch(name, ext) == Len(name) >= 2 /\ name[Len(name)] = ext

\* rm(self, "*." + ext, folder), recursive=False: the matching files that are
\* directly in the folder.
rm(files, ext, folder) == { f \in files : ~(f.dir = folder /\ fnmatch(f.name, ext)) }

\* A removal that only takes an empty directory.
rmdir_if_empty(files, folder) == files

\* rmdir(self, folder): the folder with everything below it.
rmdir(files, folder) ==
    { f \in files :
        ~(Len(f.dir) >= Len(folder) /\ SubSeq(f.dir, 1, Len(folder)) = folder) }

LicenseFile == File(<<"licenses">>, <<"COPYING", "LIB">>)
DllLib(import_lib) == File(<<"lib">>, <<import_lib, "dll", "lib">>)
Lib(import_lib) == File(<<"lib">>, <<import_lib, "lib">>)

\* rename(self, src, dst): raises when dst exists or src does not.
rename(files, src, dst) ==
    IF dst \in files \/ src \notin files THEN [ok |-> FALSE, val |-> files]
    ELSE [ok |-> TRUE, val |-> (files \ {src}) \cup {dst}]

\* The rename test without the shared option.
renames_import_libs_any_linkage(r) == is_msvc(r) \/ _is_clang_cl(r)

\* (is_msvc(self) or self._is_clang_cl) and self.options.shared
renames_import_libs(r) == (is_msvc(r) \/ _is_clang_cl(r)) /\ r.options["shared"]

\* The calls of package, in the order of its body.
PackageSteps(r) ==
    <<"copy", "autotools.install", "rm", "rmdir", "fix_apple_shared_install_name">>
    \o (IF renames_import_libs(r) THEN <<"rename iconv", "rename charset">> ELSE <<>>)

\* One call of package, made on a recipe that has not failed.
PackageStep(r, step, ext) ==
    LET q == Called(r, "package", step)
    IN  CASE step = "copy" -> [q EXCEPT !.package_folder = @ \cup {LicenseFile}]
          [] step = "autotools.install" ->
               IF ext.install_ok THEN [q EXCEPT !.package_folder = @ \cup r.build_folder]
               ELSE Raised(q, "package", step)
          [] step = "rm" -> [q EXCEPT !.package_folder = rm(@, "la", <<"lib">>)]
          [] step = "rmdir" -> [q EXCEPT !.package_folder = rmdir(@, <<"share">>)]
          [] step = "fix_apple_shared_install_name" -> q
          [] step \in {"rename iconv", "rename charset"} ->
               LET import_lib == IF step = "rename iconv" THEN "iconv" ELSE "charset"
                   d == rename(q.package_folder, DllLib(import_lib), Lib(import_lib))
               IN  IF d.ok THEN [q EXCEPT !.package_folder = d.val]
                   ELSE Raised(q, "package", step)

RECURSIVE PackageFrom(_, _, _)
PackageFrom(r, steps, ext) ==
    IF steps = <<>> \/ r.status = "failed" THEN r
    ELSE PackageFrom(PackageStep(r, Head(steps), ext), Tail(steps), ext)

package(r, ext) == Returned(PackageFrom(r, PackageSteps(r), ext), "package")

(***************************************************************************)
(* The recipe's life: the methods in the order the package manager calls   *)
(* them, each once, none after one has raised.                             *)
(***************************************************************************)

\* A recipe object as constructed, for the given profile and source archive.
NewRecipe(s, sb, o, bash, archive) ==
    [pc |-> "new", status |-> "ok", failed_at |-> "none", settings |-> s,
     settings_build |-> sb, options |-> o, conf_bash |-> bash, win_bash |-> FALSE,
     tool_requires |-> {}, configure_args |-> <<>>,
     env |-> [x \in {} |-> ""],
     archive_windres |-> archive, windres |-> <<>>,
     build_folder |-> {}, package_folder |-> {}, log |-> <<>>]

AllSettings ==
    { SettingsOf(os, arch, bt, comp) :
        os \in OperatingSystems, arch \in Architectures, bt \in BuildTypes,
        comp \in CompilerSettings }
AllBuildSettings == [os : OperatingSystems, arch : Architectures]
AllOptions == { OptionsOf(sh, pic) : sh \in BOOLEAN, pic \in BOOLEAN }

\* The files a build may leave to be installed.
InstallableFiles ==
    { File(<<"lib">>, <<"libiconv", "la">>),
      File(<<"lib", "charset">>, <<"libcharset", "la">>),
      File(<<"bin">>, <<"iconv", "la">>),
      File(<<"share", "man", "man1">>, <<"iconv", "1">>),
      File(<<"include">>, <<"iconv", "h">>),
      DllLib("iconv"), DllLib("charset"), Lib("iconv") }

\* What upstream's build installs for a Unix target, and for an MSVC shared one.
UnixOutput ==
    { File(<<"lib">>, <<"libiconv", "la">>),
      File(<<"share", "man", "man1">>, <<"iconv", "1">>),
      File(<<"include">>, <<"iconv", "h">>) }
MsvcSharedOutput ==
    { File(<<"include">>, <<"iconv", "h">>), DllLib("iconv"), DllLib("charset") }

\* Every windres-options text of at most MaxLen tokens.
Texts == UNION { [1..n -> Tokens] : n \in 0..MaxLen }

Ready(previous) == pc = previous /\ status = "ok"

ConfigOptions == Ready("new") /\ Becomes(config_options(Self))
Configure == Ready("config_options") /\ Becomes(configure(Self))
BuildRequirements == Ready("configure") /\ Becomes(build_requirements(Self))
Source == Ready("build_requirements") /\ \E get_ok \in BOOLEAN : Becomes(source(Self, get_ok))
Generate == Ready("source") /\ Becomes(generate(Self))
Build(outputs) == Ready("generate") /\ \E ext \in BuildExternals(outputs) : Becomes(build(Self, ext))
Package == Ready("build") /\ \E ext \in PackageExternals : Becomes(package(Self, ext))

\* Every profile, upstream's archive, upstream's build outputs.
Init ==
    \E s \in AllSettings, sb \in AllBuildSettings, o \in AllOptions, bash \in BashPaths :
        IsState(NewRecipe(s, sb, o, bash, UpstreamWindres))

Next ==
    \/ ConfigOptions
    \/ Configure
    \/ BuildRequirements
    \/ Source
    \/ Generate
    \/ Build({UnixOutput, MsvcSharedOutput})
    \/ Package

Spec == Init /\ [][Next]_vars

\* Every windres-options text, for each target arch, on a Windows and on a
\* Linux build machine.
BuildSettings ==
    { SettingsOf(os, arch, "Release", comp) :
        os \in {"Windows", "Linux"}, arch \in Architectures,
        comp \in { c \in CompilerSettings :
                     c["compiler"] \in {"msvc", "gcc"} /\ "compiler.cppstd" \notin DOMAIN c } }

InitBuild ==
    \E s \in BuildSettings, text \in Texts :
        IsState(NewRecipe(s, [os |-> s["os"], arch |-> "x86_64"], default_options,
                          None, text))

NextBuild ==
    \/ ConfigOptions
    \/ Configure
    \/ BuildRequirements
    \/ Source
    \/ Generate
    \/ Build({UnixOutput, MsvcSharedOutput})
    \/ Package

SpecBuild == InitBuild /\ [][NextBuild]_vars

\* Every set of installable files, for each os, compiler and linkage.
PackageSettings ==
    { SettingsOf(os, "x86_64", "Release", comp) :
        os \in OperatingSystems, comp \in CompilerSettings }

InitPackage ==
    \E s \in PackageSettings, sh \in BOOLEAN :
        IsState(NewRecipe(s, [os |-> s["os"], arch |-> "x86_64"], OptionsOf(sh, TRUE),
                          None, UpstreamWindres))

NextPackage ==
    \/ ConfigOptions
    \/ Configure
    \/ BuildRequirements
    \/ Source
    \/ Generate
    \/ Build(SUBSET InstallableFiles)
    \/ Package

SpecPackage == InitPackage /\ [][NextPackage]_vars

(***************************************************************************)
(* Properties.                                                             *)
(***************************************************************************)

Range(seq) == { seq[i] : i \in 1..Len(seq) }
NoDuplicates(seq) == \A i, j \in 1..Len(seq) : seq[i] = seq[j] => i = j

AfterConfigure == pc \notin {"new", "config_options"}
AfterBuildRequirements == pc \notin {"new", "config_options", "configure"}
AfterGenerate == pc \in {"generate", "build", "package"}

\* C1: on a Windows target, once config_options and configure have run, the
\* recipe has no fPIC option, whatever the arch, compiler, build type and
\* linkage.
C1_NoFPICOnWindows ==
    (AfterConfigure /\ settings["os"] = "Windows") => "fPIC" \notin DOMAIN options

\* A static Windows build after configure: only config_options removed fPIC.
C1_Witness ==
    /\ pc = "configure"
    /\ settings["os"] = "Windows"
    /\ ~options["shared"]
    /\ "fPIC" \notin DOMAIN options

\* C2: on a shared build, on every target os, once config_options and
\* configure have run the recipe has no fPIC option and configure has not
\* raised.
C2_NoFPICWhenShared ==
    (AfterConfigure /\ options["shared"]) =>
        /\ "fPIC" \notin DOMAIN options
        /\ ~(pc = "configure" /\ status = "failed")

\* A shared Windows build after configure: fPIC was gone before configure ran.
C2_Witness ==
    /\ pc = "configure"
    /\ status = "ok"
    /\ settings["os"] = "Windows"
    /\ options["shared"]
    /\ "fPIC" \notin DOMAIN options

\* The arguments generate added to the toolchain's own.
ToolchainFlags == {"--enable-shared", "--disable-static", "--disable-shared", "--enable-static"}
AddedArgs == SelectSeq(configure_args, LAMBDA a : a \notin ToolchainFlags)

MingwTriplet(arch) ==
    CASE arch = "x86_64" -> "x86_64-w64-mingw32"
      [] arch = "x86" -> "i686-w64-mingw32"
      [] arch = "armv8" -> "aarch64-w64-mingw32"

\* C3: after generate on an MSVC cross build, when the target arch and the
\* build machine's arch are both among x86_64, x86 and armv8 the arguments
\* added are exactly --host=<h>-w64-mingw32 and --build=<b>-w64-mingw32 with
\* x86_64 -> x86_64, x86 -> i686, armv8 -> aarch64; otherwise nothing is
\* added; and generate has not raised.
C3_Triplets ==
    (AfterGenerate /\ settings["compiler"] = "msvc"
       /\ (settings["os"] # settings_build.os \/ settings["arch"] # settings_build.arch)) =>
        /\ ~(pc = "generate" /\ status = "failed")
        /\ IF {settings["arch"], settings_build.arch} \subseteq {"x86_64", "x86", "armv8"}
           THEN AddedArgs = << "--host=" \o MingwTriplet(settings["arch"]),
                               "--build=" \o MingwTriplet(settings_build.arch) >>
           ELSE AddedArgs = <<>>

\* An MSVC build for x86 made on an x86_64 machine.
C3_Witness ==
    /\ pc = "generate"
    /\ settings["compiler"] = "msvc"
    /\ settings["arch"] = "x86"
    /\ settings_build.arch = "x86_64"
    /\ AddedArgs = <<"--host=i686-w64-mingw32", "--build=x86_64-w64-mingw32">>

\* The lines of a text: the tokens between its line breaks.
RECURSIVE Lines(_)
Lines(text) ==
    IF text = <<>> THEN << <<>> >>
    ELSE LET rest == Lines(Tail(text))
         IN  IF Head(text) = NL THEN << <<>> >> \o rest
             ELSE << <<Head(text)>> \o Head(rest) >> \o Tail(rest)

\* The text with the two tokens that follow each anchor taken out.
RECURSIVE Unpatched(_)
Unpatched(text) ==
    IF text = <<>> THEN <<>>
    ELSE IF Head(text) = Anchor
         THEN <<Anchor>> \o (IF Len(text) >= 4 THEN Unpatched(SubSeq(text, 4, Len(text)))
                             ELSE <<>>)
         ELSE <<Head(text)>> \o Unpatched(Tail(text))

ResourcePatchDone ==
    /\ <<"build", "_apply_resource_patch">> \in Range(log)
    /\ failed_at # "_apply_resource_patch"

EndsWithAnchor(line) == line # <<>> /\ line[Len(line)] = Anchor

\* The anchor text occurs once in the text and nothing follows it on its line.
AnchorOnceEndingItsLine(text) ==
    /\ Count(text, Anchor) = 1
    /\ \A i \in 1..Len(text) : text[i] = Anchor => (i = Len(text) \/ text[i + 1] = NL)

\* C4 as stated: on an x86 target, for every windres-options text that holds
\* the anchor text (and not yet the directive), the patched file has exactly
\* one line `echo "--target=pe-i386"`, right after the line the anchor ends;
\* on any other arch the file is unchanged.
C4_ExactlyOneInjectedLine ==
    (ResourcePatchDone /\ Inject \notin Range(archive_windres)) =>
        IF settings["arch"] = "x86"
        THEN LET L == Lines(windres)
                 at == { k \in 1..Len(L) : L[k] = <<Inject>> }
             IN  /\ Cardinality(at) = 1
                 /\ \A k \in at : k > 1 /\ EndsWithAnchor(L[k - 1])
        ELSE windres = archive_windres

\* C4, amended: on an x86 target the patch puts a line break and the text
\* `echo "--target=pe-i386"` right after every occurrence of the anchor text
\* and changes nothing else; when the anchor text occurs once and ends its
\* line, that adds exactly one line, `echo "--target=pe-i386"`, right after
\* the anchor's line; on any other arch the file is unchanged.
C4_InjectedAfterEveryAnchor ==
    ResourcePatchDone =>
        IF settings["arch"] = "x86"
        THEN /\ Count(archive_windres, Anchor) >= 1
             /\ \A i \in 1..Len(windres) :
                    windres[i] = Anchor =>
                        /\ i + 2 <= Len(windres)
                        /\ windres[i + 1] = NL
                        /\ windres[i + 2] = Inject
             /\ Unpatched(windres) = archive_windres
             /\ AnchorOnceEndingItsLine(archive_windres) =>
                    LET L0 == Lines(archive_windres)
                    IN  \E k \in 1..Len(L0) :
                            /\ EndsWithAnchor(L0[k])
                            /\ Lines(windres) =
                                 SubSeq(L0, 1, k) \o << <<Inject>> >> \o SubSeq(L0, k + 1, Len(L0))
        ELSE windres = archive_windres

\* An x86 build whose file held the anchor twice and now holds two directives.
C4_Witness ==
    /\ ResourcePatchDone
    /\ settings["arch"] = "x86"
    /\ Count(archive_windres, Anchor) = 2
    /\ Count(windres, Inject) = 2

\* A file matching *.la, and a file below the package's share directory.
IsLa(f) == f.name[Len(f.name)] = "la"
InShare(f) == f.dir # <<>> /\ f.dir[1] = "share"

\* C5 as stated: once package has returned, the package folder holds no *.la
\* file anywhere and no share directory.
C5_NoLaAnywhere ==
    (pc = "package" /\ status = "ok") =>
        \A f \in package_folder : ~IsLa(f) /\ ~InShare(f)

\* C5, amended: once package has returned, the package folder holds no *.la
\* file directly in lib/ and no share directory; *.la files the install step
\* put elsewhere are still there.
C5_NoLaInLib ==
    (pc = "package" /\ status = "ok") =>
        /\ \A f \in package_folder : ~(f.dir = <<"lib">> /\ IsLa(f)) /\ ~InShare(f)
        /\ \A f \in build_folder :
               (IsLa(f) /\ f.dir # <<"lib">> /\ ~InShare(f)) => f \in package_folder

\* A package whose install step had put a *.la file in lib/ and a man page
\* in share/.
C5_Witness ==
    /\ pc = "package"
    /\ status = "ok"
    /\ File(<<"lib">>, <<"libiconv", "la">>) \in build_folder \ package_folder
    /\ File(<<"share", "man", "man1">>, <<"iconv", "1">>) \in build_folder \ package_folder

\* msvc, or clang on Windows with a runtime setting.
MsvcFamily ==
    \/ settings["compiler"] = "msvc"
    \/ /\ settings["compiler"] = "clang"
       /\ settings["os"] = "Windows"
       /\ "compiler.runtime" \in DOMAIN settings

ImportLibFiles == {DllLib("iconv"), DllLib("charset"), Lib("iconv"), Lib("charset")}

\* C6: once package has returned for a shared build with an MSVC-family
\* compiler, lib/ holds iconv.lib and charset.lib and neither iconv.dll.lib
\* nor charset.dll.lib; for every other configuration package makes no rename
\* and leaves the import libraries as installed.
C6_ImportLibs ==
    /\ (pc = "package" /\ status = "ok" /\ MsvcFamily /\ options["shared"]) =>
           /\ {Lib("iconv"), Lib("charset")} \subseteq package_folder
           /\ {DllLib("iconv"), DllLib("charset")} \cap package_folder = {}
    /\ (pc = "package" /\ ~(MsvcFamily /\ options["shared"])) =>
           /\ \A e \in Range(log) : e[2] \notin {"rename iconv", "rename charset"}
           /\ status = "ok" =>
                  package_folder \cap ImportLibFiles = build_folder \cap ImportLibFiles

\* A shared clang-cl package whose import libraries were renamed.
C6_Witness ==
    /\ pc = "package"
    /\ status = "ok"
    /\ settings["compiler"] = "clang"
    /\ options["shared"]
    /\ {DllLib("iconv"), DllLib("charset")} \subseteq build_folder
    /\ {Lib("iconv"), Lib("charset")} \subseteq package_folder
    /\ <<"package", "rename charset">> \in Range(log)

\* C7: every error ends the recipe where it happens.  When the target is x86
\* and windres-options lacks the anchor text, build ends failed with the file
\* as it was and with neither configure nor make called; and whenever the
\* recipe has failed, the call that raised is the last call made, and no call
\* was made twice.
C7_ErrorsAreFatal ==
    /\ ( /\ pc \in {"build", "package"}
         /\ settings["arch"] = "x86"
         /\ Count(archive_windres, Anchor) = 0 ) =>
           /\ pc = "build"
           /\ status = "failed"
           /\ failed_at \in {"apply_conandata_patches", "_apply_resource_patch"}
           /\ windres = archive_windres
           /\ <<"build", "autotools.configure">> \notin Range(log)
           /\ <<"build", "autotools.make">> \notin Range(log)
    /\ status = "failed" =>
           /\ log # <<>>
           /\ log[Len(log)] = <<pc, failed_at>>
    /\ status = "ok" => failed_at = "none"
    /\ NoDuplicates(log)

\* An x86 build that stopped at the resource patch for want of the anchor.
C7_Witness ==
    /\ pc = "build"
    /\ status = "failed"
    /\ failed_at = "_apply_resource_patch"
    /\ settings["arch"] = "x86"
    /\ Count(archive_windres, Anchor) = 0
    /\ windres = archive_windres
    /\ log[Len(log)] = <<"build", "_apply_resource_patch">>

\* msys2 is required: on a Windows build machine with no bash path set.
MsysRequired == settings_build.os = "Windows" /\ conf_bash \in {None, ""}

\* C8: after build_requirements, msys2/cci.latest is a tool requirement
\* exactly when the build machine's os is Windows and no bash path is
\* configured, and win_bash is set exactly when the build machine's os is
\* Windows, whatever the target os.
C8_BuildRequirements ==
    /\ AfterBuildRequirements =>
           /\ ("msys2/cci.latest" \in tool_requires) <=> MsysRequired
           /\ win_bash <=> (settings_build.os = "Windows")
    /\ ~AfterBuildRequirements => (tool_requires = {} /\ ~win_bash)

\* A Linux target built on a Windows machine that has a bash configured.
C8_Witness ==
    /\ pc = "build_requirements"
    /\ settings_build.os = "Windows"
    /\ settings["os"] = "Linux"
    /\ conf_bash \notin {None, ""}
    /\ win_bash
    /\ tool_requires = {}

\* The calls build has made so far.
BuildCalls == SelectSeq(log, LAMBDA e : e[1] = "build")

BuildOrder ==
    << <<"build", "apply_conandata_patches">>, <<"build", "_apply_resource_patch">>,
       <<"build", "autotools.configure">>, <<"build", "autotools.make">> >>

\* C9: the calls of build are, in this order and each at most once, the
\* source patches, the resource patch, configure, make; a call is made only
\* when every call before it has returned.
C9_BuildOrder ==
    /\ Len(BuildCalls) <= Len(BuildOrder)
    /\ BuildCalls = SubSeq(BuildOrder, 1, Len(BuildCalls))
    /\ \A i \in 1..Len(BuildCalls) :
           (pc = "build" /\ status = "failed" /\ BuildCalls[i][2] = failed_at) =>
               i = Len(BuildCalls)
    /\ (pc = "build" /\ status = "ok") => BuildCalls = BuildOrder

\* A build of an x86 target that made all four calls.
C9_Witness ==
    /\ pc = "build"
    /\ status = "ok"
    /\ settings["arch"] = "x86"
    /\ BuildCalls = BuildOrder

ToolVariables == {"CC", "CXX", "LD", "STRIP", "AR", "RANLIB", "NM", "win32_target"}

\* The build-aux folder as the shell of the build machine sees it.
BuildAux == IF settings_build.os = "Windows" THEN "/c/ws/src/build-aux/" ELSE "/ws/src/build-aux/"

ClangCl ==
    /\ settings["compiler"] = "clang"
    /\ settings["os"] = "Windows"
    /\ "compiler.runtime" \in DOMAIN settings

\* C10: after generate the environment defines CC, CXX, LD, STRIP, AR,
\* RANLIB, NM and win32_target exactly when the compiler is MSVC or clang-cl;
\* then CC and CXX are the compile wrapper, the compiler and -nologo, AR is
\* the ar-lib wrapper and the librarian, LD is the linker, STRIP and RANLIB
\* are `:`, NM is `dumpbin -symbols` and win32_target is _WIN32_WINNT_VISTA,
\* with (clang-cl, llvm-lib, lld-link) for clang-cl and (cl, lib, link)
\* otherwise; any other toolchain gets none of them.
C10_ToolVariables ==
    AfterGenerate =>
        IF settings["compiler"] = "msvc" \/ ClangCl
        THEN LET cc == IF ClangCl THEN "clang-cl" ELSE "cl"
                 lib == IF ClangCl THEN "llvm-lib" ELSE "lib"
                 link == IF ClangCl THEN "lld-link" ELSE "link"
             IN  /\ ToolVariables \subseteq DOMAIN env
                 /\ env["CC"] = BuildAux \o "compile " \o cc \o " -nologo"
                 /\ env["CXX"] = BuildAux \o "compile " \o cc \o " -nologo"
                 /\ env["AR"] = BuildAux \o "ar-lib " \o lib
                 /\ env["LD"] = link
                 /\ env["STRIP"] = ":"
                 /\ env["RANLIB"] = ":"
                 /\ env["NM"] = "dumpbin -symbols"
                 /\ env["win32_target"] = "_WIN32_WINNT_VISTA"
        ELSE ToolVariables \cap DOMAIN env = {}

\* A clang-cl build made on a Windows machine.
C10_Witness ==
    /\ pc = "generate"
    /\ ClangCl
    /\ settings_build.os = "Windows"
    /\ env["CC"] = "/c/ws/src/build-aux/compile clang-cl -nologo"
    /\ env["AR"] = "/c/ws/src/build-aux/ar-lib llvm-lib"
    /\ env["LD"] = "lld-link"

====
